---- MODULE Spec2Model ----
(***************************************************************************)
(* Model of src/chess_rankings_service.py (ChessRankingsService).          *)
(*                                                                         *)
(* Calendar dates are proleptic Gregorian ordinals (date.toordinal()), so  *)
(* that "today - timedelta(days=i)" is integer subtraction.  An optional   *)
(* value is None (the empty tuple) or Some(v) (a one-element tuple).  The  *)
(* outcome of a call is a record [exc, val]: exc = "none" on a normal      *)
(* return, otherwise the name of the exception class that propagates.      *)
(***************************************************************************)
EXTENDS Integers, Sequences, FiniteSets, TLC

\* ------------------------------------------------------------------ bounds
\* Longest leaderboard the provider returns in Spec.
MaxPlayers == 3
\* How many midnights may pass during one run of Spec.
MaxTicks == 1
\* Longest Classical points array in SpecTrend.
MaxPoints == 2
\* In SpecPool the leaderboard has MaxWorkersCap + PoolExtra players.
PoolExtra == 1

\* ------------------------------------------------------- program constants
\* min(10, len(usernames))
MaxWorkersCap == 10
\* range(30, -1, -1): the window reaches 30 days back
WindowDays == 30
\* [None] * 31
AbsentCount == 31
\* _get_top_players_usernames(50)
TopCount == 50

\* ------------------------------------------------------------ value helpers
None == << >>
Some(v) == << v >>

Return(v) == [exc |-> "none", val |-> v]
Raise(e) == [exc |-> e, val |-> << >>]

\* class X(ChessRankingsServiceError)
ServiceErrors ==
  {"APIError", "PlayerNotFoundError", "RatingHistoryNotFoundError",
   "ClassicalRatingNotFoundError"}

Min(a, b) == IF a < b THEN a ELSE b

\* -------------------------------------------------------- datetime.date
IsLeap(y) == y % 4 = 0 /\ (y % 100 # 0 \/ y % 400 = 0)

DaysInMonth(y, m) ==
  IF m = 2 THEN (IF IsLeap(y) THEN 29 ELSE 28)
  ELSE IF m \in {4, 6, 9, 11} THEN 30 ELSE 31

RECURSIVE DaysBeforeMonth(_, _)
DaysBeforeMonth(y, m) ==
  IF m <= 1 THEN 0 ELSE DaysBeforeMonth(y, m - 1) + DaysInMonth(y, m - 1)

DaysBeforeYear(y) ==
  LET p == y - 1 IN p * 365 + (p \div 4) - (p \div 100) + (p \div 400)

\* datetime(year, month, day) raises ValueError unless this holds
ValidDate(y, m, d) ==
  /\ y \in 1..9999
  /\ m \in 1..12
  /\ d \in 1..DaysInMonth(y, m)

ToOrdinal(y, m, d) == DaysBeforeYear(y) + DaysBeforeMonth(y, m) + d

\* The years the model's clock and observations fall in.
Years == 2022..2026

\* date.strftime('%Y-%m-%d'): the year, month and day of an ordinal
StrfTime(n) ==
  LET y == CHOOSE yy \in Years :
             DaysBeforeYear(yy) < n /\ n <= DaysBeforeYear(yy + 1)
      r == n - DaysBeforeYear(y)
      m == CHOOSE mm \in 1..12 :
             DaysBeforeMonth(y, mm) < r
               /\ r <= DaysBeforeMonth(y, mm) + DaysInMonth(y, mm)
  IN << y, m, r - DaysBeforeMonth(y, m) >>

\* [today - timedelta(days=i) for i in range(30, -1, -1)]
DateRange(today) == [i \in 1..(WindowDays + 1) |-> today - WindowDays + (i - 1)]

\* ------------------------------------------------------------ _fetch_json
\* A provider response is [kind, body]: kind "error" is a transport or HTTP
\* failure, "null" a JSON null body, "json" any other body.
FetchJson(resp) ==
  IF resp.kind = "error" THEN Raise("APIError")
  ELSE IF resp.kind = "null" THEN Return(None)
  ELSE Return(Some(resp.body))

\* -------------------------------------------- _get_top_players_usernames
Truthy(s) == s \notin {"", "<None>"}

RECURSIVE ListUsernames(_)
ListUsernames(players) ==
  IF players = << >> THEN << >>
  ELSE LET u == Head(players).username
       IN (IF Truthy(u) THEN << u >> ELSE << >>) \o ListUsernames(Tail(players))

\* No "if not players" check: an empty list is returned.
GetTopPlayersUsernamesNoEmptyCheck(resp) ==
  LET r == FetchJson(resp) IN
  IF r.exc # "none" THEN r
  ELSE IF r.val = None \/ ~r.val[1].has_users
    THEN Raise("PlayerNotFoundError")
  ELSE Return(ListUsernames(r.val[1].users))

GetTopPlayersUsernames(resp) ==
  LET r == FetchJson(resp) IN
  IF r.exc # "none" THEN r
  ELSE IF r.val = None \/ ~r.val[1].has_users
    THEN Raise("PlayerNotFoundError")
  ELSE IF r.val[1].users = << >>
    THEN Raise("PlayerNotFoundError")
  ELSE Return(ListUsernames(r.val[1].users))

\* -------------------------------------------- _get_player_rating_history
GetPlayerRatingHistory(resp) ==
  LET r == FetchJson(resp) IN
  IF r.exc # "none" THEN r
  ELSE IF r.val = None THEN Raise("RatingHistoryNotFoundError")
  ELSE Return(r.val[1])

\* ------------------------------------- _extract_classical_rating_history
RECURSIVE ExtractClassicalRatingHistory(_)
ExtractClassicalRatingHistory(rating_data) ==
  IF rating_data = << >> THEN Raise("ClassicalRatingNotFoundError")
  ELSE IF Head(rating_data).name = "Classical"
    THEN Return(Head(rating_data).points)
  ELSE ExtractClassicalRatingHistory(Tail(rating_data))

\* ----------------------------------------- _build_date_to_rating_mapping
\* rating_dict[date] = rating
DictSet(dict, k, v) ==
  [x \in (DOMAIN dict) \cup {k} |-> IF x = k THEN v ELSE dict[x]]

RECURSIVE BuildLoop(_, _)
BuildLoop(points, rating_dict) ==
  IF points = << >> THEN Return(rating_dict)
  ELSE LET point == Head(points)
           year == point[1]
           month == point[2]
           day == point[3]
           rating == point[4]
       IN IF ~ValidDate(year, month + 1, day) THEN Raise("ValueError")
          ELSE BuildLoop(Tail(points),
                         DictSet(rating_dict, ToOrdinal(year, month + 1, day), rating))

BuildDateToRatingMapping(classical_history) == BuildLoop(classical_history, << >>)

\* ------------------------------------------ _get_first_rating_before_date
MaxOf(S) == CHOOSE x \in S : \A y \in S : y <= x

\* "<=" where the code has "<".
GetFirstRatingBeforeDateInclusive(rating_dict, target_date) ==
  LET dates_before_target == {date \in DOMAIN rating_dict : date <= target_date}
  IN IF dates_before_target # {}
       THEN Some(rating_dict[MaxOf(dates_before_target)])
       ELSE None

GetFirstRatingBeforeDate(rating_dict, target_date) ==
  LET dates_before_target == {date \in DOMAIN rating_dict : date < target_date}
  IN IF dates_before_target # {}
       THEN Some(rating_dict[MaxOf(dates_before_target)])
       ELSE None

\* ----------------------------------------- _generate_last_30_days_ratings
\* rating_dict.get(key)
DictGet(dict, k) == IF k \in DOMAIN dict THEN Some(dict[k]) ELSE None

RECURSIVE RatingsLoop(_, _, _, _)
RatingsLoop(rating_dict, last_30_days, last_known_rating, ratings) ==
  IF last_30_days = << >> THEN ratings
  ELSE LET date == Head(last_30_days)
           known == IF date \in DOMAIN rating_dict
                      THEN Some(rating_dict[date])
                      ELSE last_known_rating
       IN RatingsLoop(rating_dict, Tail(last_30_days), known, Append(ratings, known))

\* No lookup before the window start: the seed stays None.
GenerateLast30DaysRatingsNoLookback(rating_dict, clock) ==
  LET today == clock
      last_30_days == DateRange(today)
      start_date == last_30_days[1]
  IN RatingsLoop(rating_dict, last_30_days, DictGet(rating_dict, start_date), << >>)

GenerateLast30DaysRatings(rating_dict, clock) ==
  LET today == clock
      last_30_days == DateRange(today)
      start_date == last_30_days[1]
      got == DictGet(rating_dict, start_date)
      last_known_rating ==
        IF got = None THEN GetFirstRatingBeforeDate(rating_dict, start_date)
        ELSE got
  IN RatingsLoop(rating_dict, last_30_days, last_known_rating, << >>)

\* ------------------------- _get_last_30_days_classical_ratings_for_player
GetLast30DaysClassicalRatingsForPlayer(resp, clock) ==
  LET rating_data == GetPlayerRatingHistory(resp) IN
  IF rating_data.exc # "none" THEN rating_data
  ELSE LET classical_history == ExtractClassicalRatingHistory(rating_data.val) IN
  IF classical_history.exc # "none" THEN classical_history
  ELSE LET rating_dict == BuildDateToRatingMapping(classical_history.val) IN
  IF rating_dict.exc # "none" THEN rating_dict
  ELSE Return(GenerateLast30DaysRatings(rating_dict.val, clock))


\* ---------------------------------------------------------------- state
VARIABLES
  provider,     \* the data source: [leaderboard, history]
  now,          \* the clock, as datetime.now().date()
  pc,           \* position of the main thread
  error,        \* the exception that left the operation, or "none"
  usernames,    \* generate_rating_csv...: usernames
  header,       \* generate_rating_csv...: header
  max_workers,  \* generate_rating_csv...: max_workers
  futures,      \* future_to_username, in submission order
  data_rows,    \* generate_rating_csv...: data_rows
  csvfile,      \* the export: None, or Some([header, rows])
  frame,        \* locals of print_last_30_day_rating_for_top_player
  printed       \* what print_last_30_day_rating_for_top_player printed

vars == << provider, now, pc, error, usernames, header, max_workers, futures,
           data_rows, csvfile, frame, printed >>

\* ------------------------------------------------------ provider's data
HttpError == [kind |-> "error", body |-> << >>]
JsonNull == [kind |-> "null", body |-> << >>]
Json(b) == [kind |-> "json", body |-> b]

BoundedSeq(S, n) == UNION {[1..k -> S] : k \in 0..n}

Names == {"a", "b", "c"}

\* The first day of every run of Spec and SpecPool.
Day0 == ToOrdinal(2024, 3, 1)

BulletVariant == [name |-> "Bullet", points |-> << <<2024, 1, 20, 2100>> >>]

\* Dec 31 2023, Feb 10 2024, Mar 1 2024, Mar 2 2024 (months zero-indexed)
GoodPoints ==
  << <<2023, 11, 31, 1480>>, <<2024, 1, 10, 1500>>,
     <<2024, 2, 1, 1520>>, <<2024, 2, 2, 1540>> >>

\* The second observation is Feb 30 2024.
BadPoints == << <<2024, 1, 10, 1500>>, <<2024, 1, 30, 1510>> >>

NoClassical == Json(<< BulletVariant >>)
Good == Json(<< BulletVariant, [name |-> "Classical", points |-> GoodPoints] >>)
Malformed == Json(<< [name |-> "Classical", points |-> BadPoints] >>)

Users(s) == Json([has_users |-> TRUE, users |-> s])
NoUsersKey == Json([has_users |-> FALSE, users |-> << >>])

\* What the provider holds for the players in Spec: every history intact; the
\* fetch of a's failing; every history unusable, each in its own way.
BatchHistoryMaps ==
  { [a |-> Good, b |-> Good, c |-> Good],
    [a |-> HttpError, b |-> Good, c |-> Good],
    [a |-> JsonNull, b |-> Malformed, c |-> NoClassical] }

\* No leaderboard, an empty one, up to MaxPlayers named players, or players
\* whose username is empty or missing.
BatchLeaderboards ==
  {HttpError, JsonNull, NoUsersKey}
    \cup {Users(s) : s \in BoundedSeq({[username |-> u] : u \in Names}, MaxPlayers)}
    \cup {Users(<< [username |-> ""] >>),
          Users(<< [username |-> "<None>"], [username |-> "b"] >>)}

\* GET /player/top/{count}/classical: at most count players
LeaderboardResponse(count) ==
  LET lb == provider.leaderboard IN
  IF lb.kind = "json" /\ lb.body.has_users
    THEN Users(SubSeq(lb.body.users, 1, Min(count, Len(lb.body.users))))
    ELSE lb

NoFrame ==
  [username |-> "", rating_data |-> << >>, classical_history |-> << >>,
   rating_dict |-> << >>, today |-> 0, ratings |-> << >>]

Init ==
  /\ provider \in [leaderboard : BatchLeaderboards, history : BatchHistoryMaps]
  /\ now = Day0
  /\ pc = "start"
  /\ error = "none"
  /\ usernames = << >>
  /\ header = << >>
  /\ max_workers = 0
  /\ futures = << >>
  /\ data_rows = << >>
  /\ csvfile = None
  /\ frame = NoFrame
  /\ printed = << >>

\* ------------------------- generate_rating_csv_for_top_50_classical_players
Crash(e) == pc' = "crashed" /\ error' = e

\* usernames = self._get_top_players_usernames(50)
GetTopPlayers ==
  /\ pc = "start"
  /\ LET r == GetTopPlayersUsernames(LeaderboardResponse(TopCount)) IN
       IF r.exc # "none"
         THEN Crash(r.exc) /\ UNCHANGED usernames
         ELSE usernames' = r.val /\ pc' = "header" /\ UNCHANGED error
  /\ UNCHANGED << provider, now, header, max_workers, futures, data_rows, csvfile,
                  frame, printed >>

\* No cap on the pool.
MaxWorkersUncapped(us) == Len(us)

\* max_workers = min(10, len(usernames))
MaxWorkers(us) == Min(MaxWorkersCap, Len(us))

\* header = ['username'] + [date.strftime('%Y-%m-%d') for date in date_range]
Header(today) ==
  LET date_range == DateRange(today)
  IN << "username" >> \o [i \in 1..Len(date_range) |-> StrfTime(date_range[i])]

\* today .. ThreadPoolExecutor(max_workers=max_workers), which raises
\* ValueError unless max_workers > 0
ComputeHeader ==
  /\ pc = "header"
  /\ header' = Header(now)
  /\ max_workers' = MaxWorkers(usernames)
  /\ IF max_workers' <= 0
       THEN Crash("ValueError")
       ELSE pc' = "submit" /\ UNCHANGED error
  /\ UNCHANGED << provider, now, usernames, futures, data_rows, csvfile, frame,
                  printed >>

\* executor.submit(self._get_last_30_days_classical_ratings_for_player, username)
Submit ==
  /\ pc = "submit"
  /\ Len(futures) < Len(usernames)
  /\ futures' = Append(futures,
       [username |-> usernames[Len(futures) + 1], state |-> "pending",
        exc |-> "none", val |-> << >>, taken |-> FALSE])
  /\ pc' = IF Len(futures') = Len(usernames) THEN "collect" ELSE "submit"
  /\ UNCHANGED << provider, now, error, usernames, header, max_workers, data_rows,
                  csvfile, frame, printed >>

Running == {i \in 1..Len(futures) : futures[i].state = "running"}

\* A worker thread of the pool takes the oldest queued work item.
StartTask(i) ==
  /\ pc \in {"submit", "collect", "aborting"}
  /\ futures[i].state = "pending"
  /\ \A j \in 1..(i - 1) : futures[j].state # "pending"
  /\ Cardinality(Running) < max_workers
  /\ futures' = [futures EXCEPT ![i].state = "running"]
  /\ UNCHANGED << provider, now, pc, error, usernames, header, max_workers,
                  data_rows, csvfile, frame, printed >>

\* The work item runs _get_last_30_days_classical_ratings_for_player(username)
\* and its future holds the result or the exception.
FinishTask(i) ==
  /\ futures[i].state = "running"
  /\ LET r == GetLast30DaysClassicalRatingsForPlayer(
                provider.history[futures[i].username], now)
     IN futures' = [futures EXCEPT ![i].state = "finished",
                                   ![i].exc = r.exc, ![i].val = r.val]
  /\ UNCHANGED << provider, now, pc, error, usernames, header, max_workers,
                  data_rows, csvfile, frame, printed >>

\* A row of 30 None.
AbsentRowShort(username) == << username >> \o [i \in 1..(AbsentCount - 1) |-> None]

\* row = [username] + [None] * 31
AbsentRow(username) == << username >> \o [i \in 1..AbsentCount |-> None]

\* One iteration of "for future in as_completed(future_to_username)".
Collect(i) ==
  /\ pc = "collect"
  /\ futures[i].state = "finished"
  /\ ~futures[i].taken
  /\ futures' = [futures EXCEPT ![i].taken = TRUE]
  /\ LET username == futures[i].username IN
     IF futures[i].exc = "none"
       THEN /\ data_rows' = Append(data_rows, << username >> \o futures[i].val)
            /\ UNCHANGED << pc, error >>
     ELSE IF futures[i].exc \in ServiceErrors
       THEN /\ data_rows' = Append(data_rows, AbsentRow(username))
            /\ UNCHANGED << pc, error >>
     ELSE /\ pc' = "aborting"
          /\ error' = futures[i].exc
          /\ UNCHANGED data_rows
  /\ UNCHANGED << provider, now, usernames, header, max_workers, csvfile, frame,
                  printed >>

\* The exception leaves the with block: shutdown(wait=True) lets every work
\* item finish, then the exception propagates.
Abort ==
  /\ pc = "aborting"
  /\ \A i \in 1..Len(futures) : futures[i].state = "finished"
  /\ pc' = "crashed"
  /\ UNCHANGED << provider, now, error, usernames, header, max_workers, futures,
                  data_rows, csvfile, frame, printed >>

\* The loop ends as soon as one future was handled.
AsCompletedExhaustedEarly == \E i \in 1..Len(futures) : futures[i].taken

\* as_completed has yielded every future
AsCompletedExhausted == \A i \in 1..Len(futures) : futures[i].taken

\* Every username sorts first.
UsernameOrderAllZero(us) == [u \in {us[i] : i \in 1..Len(us)} |-> 0]

\* username_order = {username: index for index, username in enumerate(usernames)}
UsernameOrder(us) ==
  [u \in {us[i] : i \in 1..Len(us)} |->
     MaxOf({i \in 1..Len(us) : us[i] = u}) - 1]

\* key=lambda row: username_order.get(row[0], 0)
SortKey(username_order, row) ==
  IF row[1] \in DOMAIN username_order THEN username_order[row[1]] ELSE 0

\* list.sort is stable: rows of equal key keep their order
RECURSIVE SortByKey(_, _, _, _)
SortByKey(rows, username_order, k, n) ==
  IF k > n THEN << >>
  ELSE SelectSeq(rows, LAMBDA row : SortKey(username_order, row) = k)
         \o SortByKey(rows, username_order, k + 1, n)

SortRows(rows, us) == SortByKey(rows, UsernameOrder(us), 0, Len(us))

\* The loop and the with block end; data_rows.sort(...)
Sort ==
  /\ pc = "collect"
  /\ AsCompletedExhausted
  /\ \A i \in 1..Len(futures) : futures[i].state = "finished"
  /\ data_rows' = SortRows(data_rows, usernames)
  /\ pc' = "write"
  /\ UNCHANGED << provider, now, error, usernames, header, max_workers, futures,
                  csvfile, frame, printed >>

\* open(filename, 'w'), writer.writerow(header), writer.writerow(row) ...;
\* an IOError is caught: it leaves no file (k = 0) or the rows written so far.
WriteCsv ==
  /\ pc = "write"
  /\ \E k \in 0..(Len(data_rows) + 1) :
       csvfile' = IF k = 0 THEN None
                  ELSE Some([header |-> header, rows |-> SubSeq(data_rows, 1, k - 1)])
  /\ pc' = "done"
  /\ UNCHANGED << provider, now, error, usernames, header, max_workers, futures,
                  data_rows, frame, printed >>

\* Midnight passes while a task has still to read the clock.
Tick ==
  /\ pc \in {"submit", "collect", "aborting"}
  /\ \/ Len(futures) < Len(usernames)
     \/ \E i \in 1..Len(futures) : futures[i].state # "finished"
  /\ now < Day0 + MaxTicks
  /\ now' = now + 1
  /\ UNCHANGED << provider, pc, error, usernames, header, max_workers, futures,
                  data_rows, csvfile, frame, printed >>

Next ==
  \/ GetTopPlayers
  \/ ComputeHeader
  \/ Submit
  \/ \E i \in 1..Len(futures) : StartTask(i)
  \/ \E i \in 1..Len(futures) : FinishTask(i)
  \/ \E i \in 1..Len(futures) : Collect(i)
  \/ Abort
  \/ Sort
  \/ WriteCsv
  \/ Tick

Spec == Init /\ [][Next]_vars


\* --------------------------------- print_last_30_day_rating_for_top_player
\* Feb 28 2023, Feb 29 2023 (no such day), Dec 31 2023, Jan 30 2024,
\* Jan 31 2024 (twice), Feb 29 2024, Feb 30 2024 (no such day), Mar 1 2024,
\* Mar 2 2024; one rating is 0.
PointPool ==
  { <<2023, 1, 28, 1410>>, <<2023, 1, 29, 1420>>, <<2023, 11, 31, 0>>,
    <<2024, 0, 30, 1440>>, <<2024, 0, 31, 1450>>, <<2024, 0, 31, 1455>>,
    <<2024, 1, 29, 1460>>, <<2024, 1, 30, 1470>>, <<2024, 2, 1, 1480>>,
    <<2024, 2, 2, 1490>> }

TrendHistories ==
  {HttpError, JsonNull, NoClassical}
    \cup {Json(<< BulletVariant, [name |-> "Classical", points |-> p] >>) :
            p \in BoundedSeq(PointPool, MaxPoints)}

TrendLeaderboards ==
  {Users(<< [username |-> "a"], [username |-> "b"] >>),
   Users(<< [username |-> "<None>"], [username |-> ""] >>)}

\* Mar 1 2024 (leap year), Jan 5 2024 (the window starts in 2023), Mar 1 2023
TrendClocks == {ToOrdinal(2024, 3, 1), ToOrdinal(2024, 1, 5), ToOrdinal(2023, 3, 1)}

InitTrend ==
  /\ provider \in [leaderboard : TrendLeaderboards,
                   history : {[u \in Names |-> IF u = "a" THEN h ELSE JsonNull] :
                                h \in TrendHistories}]
  /\ now \in TrendClocks
  /\ pc = "t_start"
  /\ error = "none"
  /\ usernames = << >>
  /\ header = << >>
  /\ max_workers = 0
  /\ futures = << >>
  /\ data_rows = << >>
  /\ csvfile = None
  /\ frame = NoFrame
  /\ printed = << >>

TrendUnchanged ==
  UNCHANGED << provider, now, usernames, header, max_workers, futures, data_rows,
               csvfile, printed >>

\* A call's outcome moves on to "next" with "field" assigned, or propagates.
Step(r, field, next) ==
  IF r.exc # "none"
    THEN Crash(r.exc) /\ UNCHANGED frame
    ELSE frame' = [frame EXCEPT ![field] = r.val] /\ pc' = next /\ UNCHANGED error

\* username = self._get_top_players_usernames(1)[0]
TopPlayer ==
  /\ pc = "t_start"
  /\ LET r == GetTopPlayersUsernames(LeaderboardResponse(1)) IN
       IF r.exc = "none" /\ r.val = << >>
         THEN Crash("IndexError") /\ UNCHANGED frame
         ELSE Step(IF r.exc = "none" THEN Return(r.val[1]) ELSE r, "username", "t_fetch")
  /\ TrendUnchanged

\* rating_data = self._get_player_rating_history(username)
FetchHistory ==
  /\ pc = "t_fetch"
  /\ Step(GetPlayerRatingHistory(provider.history[frame.username]),
          "rating_data", "t_extract")
  /\ TrendUnchanged

\* classical_history = self._extract_classical_rating_history(rating_data, username)
ExtractClassical ==
  /\ pc = "t_extract"
  /\ Step(ExtractClassicalRatingHistory(frame.rating_data),
          "classical_history", "t_build")
  /\ TrendUnchanged

\* rating_dict = self._build_date_to_rating_mapping(classical_history)
BuildMapping ==
  /\ pc = "t_build"
  /\ Step(BuildDateToRatingMapping(frame.classical_history), "rating_dict", "t_generate")
  /\ TrendUnchanged

\* ratings = self._generate_last_30_days_ratings(rating_dict)
GenerateRatings ==
  /\ pc = "t_generate"
  /\ frame' = [frame EXCEPT !.today = now,
                            !.ratings = GenerateLast30DaysRatings(frame.rating_dict, now)]
  /\ pc' = "t_print"
  /\ UNCHANGED error
  /\ TrendUnchanged

\* date.strftime('%b %d'): the month and the day
MonthDay(n) == << StrfTime(n)[2], StrfTime(n)[3] >>

\* date_labels, output_ratings = dict(zip(date_labels, ratings)), print
PrintRatings ==
  /\ pc = "t_print"
  /\ LET date_labels == [i \in 1..(WindowDays + 1) |-> MonthDay(DateRange(now)[i])]
     IN printed' = << frame.username,
                      [i \in 1..Min(Len(date_labels), Len(frame.ratings)) |->
                         << date_labels[i], frame.ratings[i] >>] >>
  /\ pc' = "t_done"
  /\ UNCHANGED << provider, now, error, usernames, header, max_workers, futures,
                  data_rows, csvfile, frame >>

NextTrend ==
  \/ TopPlayer
  \/ FetchHistory
  \/ ExtractClassical
  \/ BuildMapping
  \/ GenerateRatings
  \/ PrintRatings

SpecTrend == InitTrend /\ [][NextTrend]_vars

\* ------------------------------------------- the batch on a long leaderboard
\* Either more players than the pool may have workers, each of them "a", whose
\* history the provider fails to serve, or two players "b", whose Classical
\* history is GoodPoints.
PoolLeaderboards ==
  {Users([i \in 1..(MaxWorkersCap + PoolExtra) |-> [username |-> "a"]]),
   Users(<< [username |-> "b"], [username |-> "b"] >>)}

InitPool ==
  /\ provider \in [leaderboard : PoolLeaderboards,
                   history : {[u \in Names |-> IF u = "a" THEN HttpError ELSE Good]}]
  /\ now = Day0
  /\ pc = "start"
  /\ error = "none"
  /\ usernames = << >>
  /\ header = << >>
  /\ max_workers = 0
  /\ futures = << >>
  /\ data_rows = << >>
  /\ csvfile = None
  /\ frame = NoFrame
  /\ printed = << >>

NextPool ==
  \/ GetTopPlayers
  \/ ComputeHeader
  \/ Submit
  \/ \E i \in 1..Len(futures) : StartTask(i)
  \/ \E i \in 1..Len(futures) : FinishTask(i)
  \/ \E i \in 1..Len(futures) : Collect(i)
  \/ Sort
  \/ WriteCsv

SpecPool == InitPool /\ [][NextPool]_vars


\* ================================================================ claims
Distinct(us) == \A i, j \in 1..Len(us) : us[i] = us[j] => i = j

Sorted == pc \in {"write", "done"}

\* The rating of the latest observation of timeline T dated on or before d.
LatestOnOrBefore(T, d) ==
  IF \A x \in DOMAIN T : x > d THEN None
  ELSE Some(T[CHOOSE x \in DOMAIN T :
                x <= d /\ \A y \in DOMAIN T : y <= d => y <= x])

\* The timeline the provider's data gives player u (a Classical history of
\* valid observations), else the empty timeline.
TimelineOf(u) ==
  LET h == GetPlayerRatingHistory(provider.history[u])
      c == IF h.exc = "none" THEN ExtractClassicalRatingHistory(h.val)
           ELSE h
      m == IF c.exc = "none" THEN BuildDateToRatingMapping(c.val) ELSE c
  IN IF m.exc = "none" THEN m.val ELSE << >>

\* C1 (as stated): once data_rows is sorted, its usernames are the input
\* usernames, position by position, for every username sequence and every
\* completion order.
C1_BatchOrder ==
  Sorted =>
    /\ Len(data_rows) = Len(usernames)
    /\ \A i \in 1..Len(usernames) : data_rows[i][1] = usernames[i]

\* C1 (amended): once data_rows is sorted, its usernames are the input
\* usernames, position by position, for every username sequence without a
\* repeated username and every completion order.
C1_BatchOrderDistinct ==
  (Sorted /\ Distinct(usernames)) =>
    /\ Len(data_rows) = Len(usernames)
    /\ \A i \in 1..Len(usernames) : data_rows[i][1] = usernames[i]

C1_Witness ==
  /\ Sorted
  /\ Distinct(usernames)
  /\ Len(usernames) = 3
  /\ \A i \in 1..Len(usernames) : data_rows[i][1] = usernames[i]

\* C2: a per-player task that fails with any error kind is replaced by an
\* all-absent row and the batch, once dispatched, never aborts.
C2_AnyErrorIsolation ==
  /\ futures # << >> => pc \notin {"aborting", "crashed"}
  /\ \A i \in 1..Len(futures) :
       (futures[i].taken /\ futures[i].exc # "none") =>
         \E k \in 1..Len(data_rows) : data_rows[k] = AbsentRow(futures[i].username)

\* The fetch fails for exactly one position of the batch and every other
\* player has an intact Classical history.
OneFetchFails(k) ==
  /\ k \in 1..Len(usernames)
  /\ \A i \in 1..Len(usernames) :
       provider.history[usernames[i]] = (IF i = k THEN HttpError ELSE Good)

\* Row i is username i followed by that player's window of 31 entries, as
\* reconstructed on one of the days of the run.
Populated(i) ==
  /\ Len(data_rows[i]) = 32
  /\ \E d \in Day0..now :
       data_rows[i] = << usernames[i] >>
                        \o [j \in 1..31 |->
                              LatestOnOrBefore(TimelineOf(usernames[i]), d - 31 + j)]
  /\ \E j \in 2..32 : data_rows[i][j] # None

AllAbsent(i) ==
  /\ Len(data_rows[i]) = 32
  /\ data_rows[i][1] = usernames[i]
  /\ \A j \in 2..32 : data_rows[i][j] = None

IsolatedAt(k) ==
  /\ Len(data_rows) = Len(usernames)
  /\ AllAbsent(k)
  /\ \A i \in 1..Len(usernames) : i # k => Populated(i)

\* C3 (as stated): when exactly one username's fetch fails, the batch yields N
\* rows: N-1 populated windows and one all-absent row at the failing
\* username's position.
C3_PartialFailure ==
  \A k \in 1..Len(usernames) : (Sorted /\ OneFetchFails(k)) => IsolatedAt(k)

\* C3 (amended): the same, for a batch whose usernames are pairwise distinct.
C3_PartialFailureDistinct ==
  \A k \in 1..Len(usernames) :
    (Sorted /\ Distinct(usernames) /\ OneFetchFails(k)) => IsolatedAt(k)

C3_Witness ==
  /\ pc = "done"
  /\ Distinct(usernames)
  /\ Len(usernames) = 3
  /\ OneFetchFails(2)
  /\ IsolatedAt(2)

\* C4: the reconstructed trend has exactly 31 entries, one per day from
\* reference-30 to reference; entry i is the rating of the latest observation
\* on or before day i (however far back), and is absent only when there is none.
C4_TrendReconstruction ==
  pc \in {"t_print", "t_done"} =>
    /\ Len(frame.ratings) = 31
    /\ \A i \in 1..31 :
         frame.ratings[i] = LatestOnOrBefore(frame.rating_dict, frame.today - 31 + i)

C4_Witness ==
  /\ pc = "t_done"
  /\ (frame.today - 30) \notin DOMAIN frame.rating_dict
  /\ \E x \in DOMAIN frame.rating_dict : x < frame.today - 30
  /\ \E x \in DOMAIN frame.rating_dict : x > frame.today - 30 /\ x <= frame.today
  /\ frame.ratings[1] # None
  /\ frame.ratings[31] # frame.ratings[1]

\* The dates C5 is probed at: every observed date, its neighbours and the
\* window's start.
ProbeDates ==
  UNION {{x - 1, x, x + 1} : x \in DOMAIN frame.rating_dict} \cup {now - 30}

\* C5: _get_first_rating_before_date(T, D) is the rating at the greatest date
\* of T strictly before D, and absent when T has no date strictly before D.
C5_MostRecentBefore ==
  pc \in {"t_generate", "t_print", "t_done"} =>
    \A D \in ProbeDates :
      LET T == frame.rating_dict
          r == GetFirstRatingBeforeDate(T, D)
      IN /\ (\A x \in DOMAIN T : x >= D) => r = None
         /\ (\E x \in DOMAIN T : x < D) =>
              \E x \in DOMAIN T :
                /\ x < D
                /\ \A y \in DOMAIN T : y < D => y <= x
                /\ r = Some(T[x])

C5_Witness ==
  /\ pc = "t_done"
  /\ (frame.today - 30) \notin DOMAIN frame.rating_dict
  /\ \E x, y \in DOMAIN frame.rating_dict :
       /\ x < frame.today - 30
       /\ y > frame.today - 30
       /\ frame.rating_dict[x] # frame.rating_dict[y]
       /\ \A z \in DOMAIN frame.rating_dict : z < frame.today - 30 => z <= x
       /\ frame.ratings[1] = Some(frame.rating_dict[x])

LeaderboardFails ==
  provider.leaderboard \in {HttpError, JsonNull, NoUsersKey, Users(<< >>)}

\* C6: when the leaderboard is empty, absent or cannot be fetched, the error
\* leaves the batch operation, no task is submitted and nothing is exported.
C6_LeaderboardFailure ==
  LeaderboardFails =>
    /\ pc \in {"start", "crashed"}
    /\ pc = "crashed" =>
         error = (IF provider.leaderboard = HttpError THEN "APIError"
                  ELSE "PlayerNotFoundError")
    /\ futures = << >>
    /\ data_rows = << >>
    /\ csvfile = None

C6_Witness ==
  /\ provider.leaderboard = Users(<< >>)
  /\ pc = "crashed"
  /\ error = "PlayerNotFoundError"
  /\ futures = << >>

\* C7: one task per username, and never more than min(10, N) tasks running.
C7_BoundedConcurrency ==
  /\ Cardinality(Running) <= Min(10, Len(usernames))
  /\ Len(futures) <= Len(usernames)
  /\ \A i \in 1..Len(futures) : futures[i].username = usernames[i]
  /\ pc \in {"collect", "write", "done"} => Len(futures) = Len(usernames)

C7_Witness ==
  /\ Len(usernames) > 10
  /\ Cardinality(Running) = 10
  /\ \E i \in 1..Len(futures) : futures[i].state = "pending"

\* C8: the sort and the export happen only after every task has finished and
\* its row (populated or all-absent) has been collected.
C8_NoPartialEmission ==
  (Sorted \/ csvfile # None) =>
    /\ Len(futures) = Len(usernames)
    /\ Len(data_rows) = Len(usernames)
    /\ \A i \in 1..Len(futures) : futures[i].state = "finished" /\ futures[i].taken

C8_Witness ==
  /\ csvfile # None
  /\ Len(usernames) >= 2
  /\ Len(csvfile[1].rows) = Len(usernames)

\* C9: whenever _get_top_players_usernames returns normally, the list it
\* returns is not empty.
C9_NonEmptyLeaderboard ==
  (pc # "start" /\ error \notin {"APIError", "PlayerNotFoundError"}) =>
    usernames # << >>

\* C10: column i of every populated row is the player's rating on the i-th
\* date of the header.
C10_ConsistentReferenceDate ==
  \A k \in 1..Len(data_rows) :
    data_rows[k] # AbsentRow(data_rows[k][1]) =>
      \A i \in 2..32 :
        data_rows[k][i] =
          LatestOnOrBefore(TimelineOf(data_rows[k][1]),
                           ToOrdinal(header[i][1], header[i][2], header[i][3]))

====
